---- MODULE Spec2Model ----
(***************************************************************************)
(* The ledger of finance_tracker.py: the SQLite store FinanceDatabase      *)
(* (accounts, transactions), the clock current_time, and the date-range    *)
(* handling of FinanceManager.                                             *)
(*                                                                         *)
(* Strings that the program compares are modelled as tuples of naturals    *)
(* compared lexicographically, field by field, which is what a byte-wise   *)
(* comparison of fixed-width, zero-padded fields does:                     *)
(*   "YYYY-MM-DDTHH:MM:SS+0000"  is  <<day, secondOfDay, 0>>               *)
(*   "YYYY-MM-DDTHH:MM:SS"       is  <<day, secondOfDay>>   (no offset)    *)
(*   ""                          is  <<>>                                  *)
(* Amounts are integers (an amount of 250 is 250.00).                      *)
(***************************************************************************)
EXTENDS Integers, Sequences, FiniteSets, TLC

VARIABLES
    accounts,         \* table accounts: sequence of rows, in rowid order
    transactions,     \* table transactions: sequence of rows, in rowid order
    sqlite_sequence,  \* AUTOINCREMENT counters, one per table
    clock,            \* the wall clock read by current_time()
    current_account,  \* FinanceManager.current_account
    call,             \* the last call made and how it ended
    connection,       \* FinanceDatabase.connection: "open" or "closed"
    pc                \* where main() is: "menu", "accounts", "finally", "exited"

vars == <<accounts, transactions, sqlite_sequence, clock, current_account, call,
          connection, pc>>

----------------------------------------------------------------------------
(* Bounds of the model *)

MaxTx == 2

MaxAccounts == 2

MaxDay == 1

(* Inputs the calls are made with *)

AccountArgs == 1..MaxAccounts

\* write path: amounts on both sides of 0, a type outside the enum
Amounts == {0, 250, 1000}

TypeArgs == {"income", "expense", "transfer"}

AccountNames == {"", "Savings"}

\* read path: valid rows that differ in account, type, category and time
QueryAmounts == {250}

Categories == {"Rent", "Salary"}

Limits == {-1, 0, 1, 50}

\* no bound, and noon of day 1 in the stored format
BoundArgs == {<<-1>>, <<1, 12 * 3600, 0>>}

\* typed at a date prompt: nothing, each day, something that is no date
DateInputs == {<< >>, <<0>>} \cup {<<d>> : d \in 1..MaxDay}

\* menu session: what is typed at the amount, category, account id, account
\* name and file name prompts
AmountInputs == {<< >>, <<0>>, <<250>>}

CategoryInputs == {[text |-> "", isdigit |-> FALSE, int |-> 0],
                   [text |-> "1", isdigit |-> TRUE, int |-> 1]}

IdInputs == {<< >>} \cup {<<k>> : k \in 1..(MaxAccounts + 1)}

Filenames == {<< >>, <<"out">>}

----------------------------------------------------------------------------
(* Values *)

\* Python's None where a string may stand: a value that is no string
None == <<-1>>

\* TransactionType with a third member
TransactionTypeWithTransfer == {"income", "expense", "transfer"}

\* class TransactionType(Enum)
TransactionType == {"income", "expense"}

\* second of the day of 23:59:59, as in replace(hour=23, minute=59, second=59)
EndOfDay == 23 * 3600 + 59 * 60 + 59

\* sqlite3.connect() leaves PRAGMA foreign_keys at its default, OFF, and the
\* program never turns it on: FOREIGN KEY clauses are parsed, not enforced
foreign_keys == FALSE

\* truth value of an Optional[str]: None and "" are false
Truthy(s) == s # None /\ s # <<>>

\* a <= b for strings (SQLite's BINARY collation, Python's str comparison):
\* the first differing field decides, and a proper prefix is smaller
StrLE(a, b) ==
    \/ /\ Len(a) <= Len(b)
       /\ \A i \in 1..Len(a) : a[i] = b[i]
    \/ \E i \in 1..Len(a) :
          /\ i <= Len(b)
          /\ a[i] < b[i]
          /\ \A j \in 1..(i - 1) : a[j] = b[j]

\* datetime.now(timezone.utc).strftime(ISO_FORMAT): the offset is printed
current_time == <<clock.day, clock.sec, 0>>

\* a numeric SQL result: the number v is <<v>>, NULL is the empty tuple
NULL == << >>

\* (x or 0) on a numeric SQL result: NULL and 0 are false
Or0(x) == IF x = NULL \/ x[1] = 0 THEN 0 ELSE x[1]

----------------------------------------------------------------------------
(* The store *)

AccountIds == {accounts[i].id : i \in 1..Len(accounts)}

\* what the constraints of table transactions say of a row to insert
TransactionInsertError(row) ==
    IF row.type \notin {"income", "expense"} THEN "IntegrityError"
    ELSE IF foreign_keys /\ row.account_id \notin AccountIds THEN "IntegrityError"
    ELSE ""

\* _initialize_database that inserts the default account on every start
initialize_database_always(accts, seq) ==
    [accounts |-> Append(accts, [id |-> seq.accounts + 1, name |-> "Primary Account",
                                 created_at |-> current_time]),
     sqlite_sequence |-> [seq EXCEPT !.accounts = seq.accounts + 1]]

\* FinanceDatabase._initialize_database on a file that holds the rows accts and
\* the counters seq: CREATE TABLE IF NOT EXISTS keeps what is there, and the
\* default account is inserted if SELECT COUNT(*) FROM accounts is 0
initialize_database(accts, seq) ==
    IF Len(accts) = 0
    THEN [accounts |-> Append(accts, [id |-> seq.accounts + 1, name |-> "Primary Account",
                                      created_at |-> current_time]),
          sqlite_sequence |-> [seq EXCEPT !.accounts = seq.accounts + 1]]
    ELSE [accounts |-> accts, sqlite_sequence |-> seq]

\* main() on a new file: FinanceManager() opens the connection, creates the
\* empty tables and the default account, and the menu is shown
Init ==
    /\ clock = [day |-> 1, sec |-> 0]
    /\ accounts = initialize_database(<< >>, [accounts |-> 0, transactions |-> 0]).accounts
    /\ transactions = << >>
    /\ sqlite_sequence =
          initialize_database(<< >>, [accounts |-> 0, transactions |-> 0]).sqlite_sequence
    /\ current_account = 1
    /\ call = [op |-> "__init__", args |-> << >>, raised |-> "", ret |-> None]
    /\ connection = "open"
    /\ pc = "menu"

\* time passes: the clock is read at 00:00:00, 12:00:00 and 23:59:59 of each day
Tick ==
    /\ \/ /\ clock.sec # EndOfDay
          /\ clock' = [clock EXCEPT !.sec = IF clock.sec = 0 THEN 12 * 3600 ELSE EndOfDay]
       \/ /\ clock.sec = EndOfDay
          /\ clock.day < MaxDay
          /\ clock' = [day |-> clock.day + 1, sec |-> 0]
    /\ UNCHANGED <<accounts, transactions, sqlite_sequence, current_account, call,
                 connection, pc>>

\* FinanceDatabase.add_transaction
AddTransaction(account_id, amount, transaction_type, category, description) ==
    LET args == <<account_id, amount, transaction_type, category, description>>
        row  == [id |-> sqlite_sequence.transactions + 1,
                 account_id |-> account_id,
                 timestamp |-> current_time,
                 amount |-> amount,
                 type |-> transaction_type,
                 category |-> category,
                 description |-> description]
    IN
    IF transaction_type \notin TransactionType
    THEN /\ call' = [op |-> "add_transaction", args |-> args,
                     raised |-> "ValueError", ret |-> None]
         /\ UNCHANGED <<accounts, transactions, sqlite_sequence, clock, current_account,
                     connection, pc>>
    ELSE IF TransactionInsertError(row) # ""
    THEN /\ call' = [op |-> "add_transaction", args |-> args,
                     raised |-> TransactionInsertError(row), ret |-> None]
         /\ UNCHANGED <<accounts, transactions, sqlite_sequence, clock, current_account,
                     connection, pc>>
    ELSE /\ Len(transactions) < MaxTx
         /\ transactions' = Append(transactions, row)
         /\ sqlite_sequence' = [sqlite_sequence EXCEPT !.transactions = row.id]
         /\ call' = [op |-> "add_transaction", args |-> args,
                     raised |-> "", ret |-> row.id]
         /\ UNCHANGED <<accounts, clock, current_account, connection, pc>>

\* FinanceDatabase.add_account
AddAccount(name) ==
    LET row == [id |-> sqlite_sequence.accounts + 1, name |-> name,
                created_at |-> current_time]
    IN
    /\ Len(accounts) < MaxAccounts
    /\ accounts' = Append(accounts, row)
    /\ sqlite_sequence' = [sqlite_sequence EXCEPT !.accounts = row.id]
    /\ call' = [op |-> "add_account", args |-> <<name>>, raised |-> "", ret |-> row.id]
    /\ UNCHANGED <<transactions, clock, current_account, connection, pc>>

\* sum of a sequence of numbers
RECURSIVE SumSeq(_)
SumSeq(s) == IF s = << >> THEN 0 ELSE Head(s) + SumSeq(Tail(s))

\* SQL's SUM over the selected rows: NULL when no row is selected
SqlSum(values) == IF values = << >> THEN NULL ELSE <<SumSeq(values)>>

\* CASE WHEN type = t THEN amount ELSE 0 END, row by row
CaseAmount(rows, t) ==
    [i \in 1..Len(rows) |-> IF rows[i].type = t THEN rows[i].amount ELSE 0]

\* get_balance that adds the expenses instead of subtracting them
get_balance_added(account_id) ==
    LET rows    == SelectSeq(transactions, LAMBDA r : r.account_id = account_id)
        income  == SqlSum(CaseAmount(rows, "income"))
        expense == SqlSum(CaseAmount(rows, "expense"))
    IN  Or0(income) + Or0(expense)

\* FinanceDatabase.get_balance
get_balance(account_id) ==
    LET rows    == SelectSeq(transactions, LAMBDA r : r.account_id = account_id)
        income  == SqlSum(CaseAmount(rows, "income"))
        expense == SqlSum(CaseAmount(rows, "expense"))
    IN  Or0(income) - Or0(expense)

GetBalance(account_id) ==
    /\ call' = [op |-> "get_balance", args |-> <<account_id>>, raised |-> "",
                ret |-> get_balance(account_id)]
    /\ UNCHANGED <<accounts, transactions, sqlite_sequence, clock, current_account,
                     connection, pc>>

\* InWindow with < and > for <= and >=
InWindowExclusive(timestamp, start_date, end_date) ==
    /\ Truthy(start_date) => ~StrLE(timestamp, start_date)
    /\ Truthy(end_date) => ~StrLE(end_date, timestamp)

\* the WHERE clause on timestamp: each bound applies only if it is given
InWindow(timestamp, start_date, end_date) ==
    /\ Truthy(start_date) => StrLE(start_date, timestamp)
    /\ Truthy(end_date) => StrLE(timestamp, end_date)

\* ORDER BY timestamp DESC: every order of the rows in which timestamps never
\* increase; SQL leaves the order of rows with equal timestamps open
OrderByTimestampDesc(rows) ==
    LET n     == Len(rows)
        perms == {p \in [1..n -> 1..n] : \A i, j \in 1..n : i # j => p[i] # p[j]}
    IN  {[i \in 1..n |-> rows[p[i]]] : p \in
            {q \in perms : \A i, j \in 1..n :
                i < j => StrLE(rows[q[j]].timestamp, rows[q[i]].timestamp)}}

\* LIMIT n: the first n rows; SQLite reads a negative n as no limit
SqlLimit(rows, n) ==
    IF n < 0 \/ n >= Len(rows) THEN rows ELSE SubSeq(rows, 1, n)

\* get_transactions without "WHERE account_id = ?"
get_transactions_any_account(account_id, limit, start_date, end_date) ==
    LET rows == SelectSeq(transactions, LAMBDA r :
                    InWindow(r.timestamp, start_date, end_date))
    IN  {SqlLimit(s, limit) : s \in OrderByTimestampDesc(rows)}

\* FinanceDatabase.get_transactions: the lists the query may return
get_transactions(account_id, limit, start_date, end_date) ==
    LET rows == SelectSeq(transactions, LAMBDA r :
                    /\ r.account_id = account_id
                    /\ InWindow(r.timestamp, start_date, end_date))
    IN  {SqlLimit(s, limit) : s \in OrderByTimestampDesc(rows)}

GetTransactions(account_id, limit, start_date, end_date) ==
    /\ \E result \in get_transactions(account_id, limit, start_date, end_date) :
          call' = [op |-> "get_transactions",
                   args |-> <<account_id, limit, start_date, end_date>>,
                   raised |-> "", ret |-> result]
    /\ UNCHANGED <<accounts, transactions, sqlite_sequence, clock, current_account,
                     connection, pc>>

\* get_spending_by_category without "AND type = 'expense'"
get_spending_all_types(account_id, start_date, end_date) ==
    LET rows == SelectSeq(transactions, LAMBDA r :
                    /\ r.account_id = account_id
                    /\ InWindow(r.timestamp, start_date, end_date))
        group(c) == SelectSeq(rows, LAMBDA r : r.category = c)
    IN  [c \in {rows[i].category : i \in 1..Len(rows)} |->
            SqlSum([i \in 1..Len(group(c)) |-> group(c)[i].amount])[1]]

\* FinanceDatabase.get_spending_by_category: GROUP BY category of the selected
\* rows, a dict from each category that has a row to the SUM of its amounts
get_spending_by_category(account_id, start_date, end_date) ==
    LET rows == SelectSeq(transactions, LAMBDA r :
                    /\ r.account_id = account_id
                    /\ r.type = "expense"
                    /\ InWindow(r.timestamp, start_date, end_date))
        group(c) == SelectSeq(rows, LAMBDA r : r.category = c)
    IN  [c \in {rows[i].category : i \in 1..Len(rows)} |->
            SqlSum([i \in 1..Len(group(c)) |-> group(c)[i].amount])[1]]

GetSpendingByCategory(account_id, start_date, end_date) ==
    /\ call' = [op |-> "get_spending_by_category",
                args |-> <<account_id, start_date, end_date>>,
                raised |-> "",
                ret |-> get_spending_by_category(account_id, start_date, end_date)]
    /\ UNCHANGED <<accounts, transactions, sqlite_sequence, clock, current_account,
                     connection, pc>>

----------------------------------------------------------------------------
(* The manager's date filter.  What the user types at a date prompt is <<>>
   (blank), <<d>> (the date of day d, "YYYY-MM-DD") or <<0>> (no date). *)

\* datetime.strptime(s, "%Y-%m-%d") succeeds
IsDate(s) == Len(s) = 1 /\ s[1] >= 1

\* default limit of FinanceManager._view_transactions
ViewLimit == 50

\* FinanceManager._get_date_range: strptime gives a naive datetime, whose
\* strftime(ISO_FORMAT) prints nothing for %z
get_date_range(start_input, end_input) ==
    IF \/ start_input # << >> /\ ~IsDate(start_input)
       \/ end_input # << >> /\ ~IsDate(end_input)
    THEN <<None, None>>
    ELSE << IF start_input # << >> THEN <<start_input[1], 0>> ELSE start_input,
            IF end_input # << >> THEN <<end_input[1], EndOfDay>> ELSE end_input >>

\* FinanceManager._view_transactions
ViewTransactions(start_input, end_input) ==
    LET range == get_date_range(start_input, end_input)
    IN  /\ \E result \in get_transactions(current_account, ViewLimit, range[1], range[2]) :
              call' = [op |-> "_view_transactions", args |-> <<start_input, end_input>>,
                       raised |-> "", ret |-> result]
        /\ UNCHANGED <<accounts, transactions, sqlite_sequence, clock, current_account,
                     connection, pc>>

\* FinanceManager._view_spending_summary
ViewSpendingSummary(start_input, end_input) ==
    LET range == get_date_range(start_input, end_input)
    IN  /\ call' = [op |-> "_view_spending_summary", args |-> <<start_input, end_input>>,
                    raised |-> "",
                    ret |-> get_spending_by_category(current_account, range[1], range[2])]
        /\ UNCHANGED <<accounts, transactions, sqlite_sequence, clock, current_account,
                     connection, pc>>

----------------------------------------------------------------------------
(* The menu session: main(), display_menu and the handlers of FinanceManager.
   What the user types at the amount prompt or the account id prompt is <<v>>
   (the number v) or <<>> (no number); what is typed at the category prompt
   is a record of the text, whether it is all digits, and its value if so;
   a file name is <<>> (blank), <<"out">> or <<"out", ".csv">>. *)

DEFAULT_CATEGORIES ==
    [income  |-> <<"Salary", "Bonus", "Investment", "Gift", "Other">>,
     expense |-> <<"Food", "Rent", "Transport", "Entertainment", "Utilities",
                   "Healthcare", "Other">>]

\* the category of a new transaction, from what was typed at the prompt
ChosenCategory(kind, category_choice) ==
    IF /\ category_choice.isdigit
       /\ 1 <= category_choice.int
       /\ category_choice.int <= Len(DEFAULT_CATEGORIES[kind])
    THEN DEFAULT_CATEGORIES[kind][category_choice.int]
    ELSE IF category_choice.text # "" THEN category_choice.text ELSE "Other"

\* FinanceManager._add_income and _add_expense, which differ in kind only
AddEntry(handler, kind, amount_input, category_choice) ==
    IF amount_input = << >>
    THEN /\ call' = [op |-> handler, args |-> <<amount_input, category_choice.text>>,
                     raised |-> "", ret |-> "Invalid amount. Please enter a valid number."]
         /\ UNCHANGED <<accounts, transactions, sqlite_sequence, clock, current_account,
                     connection, pc>>
    ELSE IF amount_input[1] <= 0
    THEN /\ call' = [op |-> handler, args |-> <<amount_input, category_choice.text>>,
                     raised |-> "", ret |-> "Amount must be positive."]
         /\ UNCHANGED <<accounts, transactions, sqlite_sequence, clock, current_account,
                     connection, pc>>
    ELSE AddTransaction(current_account, amount_input[1], kind,
                        ChosenCategory(kind, category_choice), "")

AddIncome(amount_input, category_choice) ==
    AddEntry("_add_income", "income", amount_input, category_choice)

AddExpense(amount_input, category_choice) ==
    AddEntry("_add_expense", "expense", amount_input, category_choice)

\* display_menu, choice 5: the accounts menu is entered
ManageAccounts ==
    /\ pc = "menu"
    /\ pc' = "accounts"
    /\ call' = [op |-> "_manage_accounts", args |-> << >>, raised |-> "", ret |-> None]
    /\ UNCHANGED <<accounts, transactions, sqlite_sequence, clock, current_account,
                connection>>

\* _manage_accounts, choice 1, without the test that the id is in the list
SwitchAccountUnchecked(id_input) ==
    /\ pc = "accounts"
    /\ IF id_input = << >>
       THEN /\ call' = [op |-> "switch_account", args |-> <<id_input>>,
                        raised |-> "", ret |-> "Invalid account ID."]
            /\ UNCHANGED current_account
       ELSE /\ current_account' = id_input[1]
            /\ call' = [op |-> "switch_account", args |-> <<id_input>>,
                        raised |-> "", ret |-> "Switched"]
    /\ UNCHANGED <<accounts, transactions, sqlite_sequence, clock, connection, pc>>

\* _manage_accounts, choice 1: switch to the account whose id is typed
SwitchAccount(id_input) ==
    /\ pc = "accounts"
    /\ IF id_input = << >>
       THEN /\ call' = [op |-> "switch_account", args |-> <<id_input>>,
                        raised |-> "", ret |-> "Invalid account ID."]
            /\ UNCHANGED current_account
       ELSE IF id_input[1] \in AccountIds
       THEN /\ current_account' = id_input[1]
            /\ call' = [op |-> "switch_account", args |-> <<id_input>>,
                        raised |-> "", ret |-> "Switched"]
       ELSE /\ call' = [op |-> "switch_account", args |-> <<id_input>>,
                        raised |-> "", ret |-> "Invalid account ID."]
            /\ UNCHANGED current_account
    /\ UNCHANGED <<accounts, transactions, sqlite_sequence, clock, connection, pc>>

\* _manage_accounts, choice 2: create the account whose name is typed
CreateAccount(name) ==
    /\ pc = "accounts"
    /\ IF name # ""
       THEN AddAccount(name)
       ELSE /\ call' = [op |-> "create_account", args |-> <<name>>,
                        raised |-> "", ret |-> "Account name cannot be empty."]
            /\ UNCHANGED <<accounts, transactions, sqlite_sequence, clock,
                        current_account, connection, pc>>

\* _manage_accounts, choice 3: back to the main menu
BackToMenu ==
    /\ pc = "accounts"
    /\ pc' = "menu"
    /\ call' = [op |-> "_manage_accounts", args |-> << >>, raised |-> "", ret |-> "back"]
    /\ UNCHANGED <<accounts, transactions, sqlite_sequence, clock, current_account,
                connection>>

\* format_date_display: "%Y-%m-%d %H:%M" of a timestamp in the stored format,
\* <<day, minuteOfDay>>; a string strptime cannot parse is returned as it is
format_date_display(timestamp) ==
    IF Len(timestamp) = 3 THEN <<timestamp[1], timestamp[2] \div 60>> ELSE timestamp

\* the limit export_transactions_to_csv passes to get_transactions
ExportLimit == 1000000

\* an export_transactions_to_csv without the try/except around open(): the
\* error of a destination that cannot be opened leaves display_menu
ExportTransactionsToCsvUncaught(account_id, filename, start_date, end_date, writable) ==
    /\ call' = [op |-> "export_transactions_to_csv",
                args |-> <<account_id, filename, start_date, end_date>>,
                opened |-> writable,
                raised |-> IF writable THEN "" ELSE "OSError",
                ret |-> writable,
                csv |-> << >>]
    /\ pc' = IF writable THEN pc ELSE "finally"
    /\ UNCHANGED <<accounts, transactions, sqlite_sequence, clock, current_account,
                connection>>

\* FinanceDatabase.export_transactions_to_csv; writable says whether open()
\* succeeds on the file name (recorded as opened); csv is what is written
\* below the header
ExportTransactionsToCsv(account_id, filename, start_date, end_date, writable) ==
    /\ \E result \in get_transactions(account_id, ExportLimit, start_date, end_date) :
          call' = [op |-> "export_transactions_to_csv",
                   args |-> <<account_id, filename, start_date, end_date>>,
                   opened |-> writable,
                   raised |-> "",
                   ret |-> writable,
                   csv |-> IF writable
                           THEN [i \in 1..Len(result) |->
                                    [id |-> result[i].id,
                                     date |-> format_date_display(result[i].timestamp),
                                     type |-> result[i].type,
                                     amount |-> result[i].amount,
                                     category |-> result[i].category,
                                     description |-> result[i].description]]
                           ELSE << >>]
    /\ UNCHANGED <<accounts, transactions, sqlite_sequence, clock, current_account,
                connection, pc>>

\* FinanceManager._export_data
ExportData(start_input, end_input, filename, writable) ==
    LET range == get_date_range(start_input, end_input)
    IN  IF filename = << >>
        THEN /\ call' = [op |-> "_export_data", args |-> <<start_input, end_input, filename>>,
                         raised |-> "", ret |-> "Filename is required."]
             /\ UNCHANGED <<accounts, transactions, sqlite_sequence, clock,
                         current_account, connection, pc>>
        ELSE ExportTransactionsToCsv(
                 current_account,
                 IF filename[Len(filename)] = ".csv" THEN filename
                 ELSE Append(filename, ".csv"),
                 range[1], range[2], writable)

\* display_menu: a choice that is none of 1 to 7
InvalidChoice ==
    /\ pc = "menu"
    /\ call' = [op |-> "display_menu", args |-> << >>, raised |-> "",
                ret |-> "Invalid choice. Please try again."]
    /\ UNCHANGED <<accounts, transactions, sqlite_sequence, clock, current_account,
                connection, pc>>

\* display_menu, choice 7: the loop is left and display_menu returns
MenuExit ==
    /\ pc = "menu"
    /\ pc' = "finally"
    /\ call' = [op |-> "display_menu", args |-> << >>, raised |-> "", ret |-> "exit"]
    /\ UNCHANGED <<accounts, transactions, sqlite_sequence, clock, current_account,
                connection>>

\* a main() that closes the connection only when display_menu returns
KeyboardInterruptNoFinally ==
    /\ pc \in {"menu", "accounts"}
    /\ pc' = "exited"
    /\ call' = [op |-> "main", args |-> << >>, raised |-> "KeyboardInterrupt", ret |-> None]
    /\ UNCHANGED <<accounts, transactions, sqlite_sequence, clock, current_account,
                connection>>

\* Ctrl-C at a prompt of the menu loop: main() catches KeyboardInterrupt
KeyboardInterrupt ==
    /\ pc \in {"menu", "accounts"}
    /\ pc' = "finally"
    /\ call' = [op |-> "main", args |-> << >>, raised |-> "KeyboardInterrupt", ret |-> None]
    /\ UNCHANGED <<accounts, transactions, sqlite_sequence, clock, current_account,
                connection>>

\* an exception no handler catches leaves display_menu: main() catches Exception
UnexpectedError ==
    /\ pc \in {"menu", "accounts"}
    /\ pc' = "finally"
    /\ call' = [op |-> "main", args |-> << >>, raised |-> "Exception", ret |-> None]
    /\ UNCHANGED <<accounts, transactions, sqlite_sequence, clock, current_account,
                connection>>

\* main(), finally: manager.db.close()
MainFinally ==
    /\ pc = "finally"
    /\ connection' = "closed"
    /\ pc' = "exited"
    /\ call' = [op |-> "close", args |-> << >>, raised |-> "", ret |-> None]
    /\ UNCHANGED <<accounts, transactions, sqlite_sequence, clock, current_account>>

\* a start that creates the tables anew instead of IF NOT EXISTS
RestartFresh ==
    /\ pc = "exited"
    /\ accounts' = initialize_database(<< >>, [accounts |-> 0, transactions |-> 0]).accounts
    /\ sqlite_sequence' =
           initialize_database(<< >>, [accounts |-> 0, transactions |-> 0]).sqlite_sequence
    /\ transactions' = << >>
    /\ connection' = "open"
    /\ current_account' = 1
    /\ pc' = "menu"
    /\ call' = [op |-> "__init__", args |-> << >>, raised |-> "", ret |-> None]
    /\ UNCHANGED clock

\* the program is started again on the same file: FinanceManager()
Restart ==
    /\ pc = "exited"
    /\ accounts' = initialize_database(accounts, sqlite_sequence).accounts
    /\ sqlite_sequence' = initialize_database(accounts, sqlite_sequence).sqlite_sequence
    /\ connection' = "open"
    /\ current_account' = 1
    /\ pc' = "menu"
    /\ call' = [op |-> "__init__", args |-> << >>, raised |-> "", ret |-> None]
    /\ UNCHANGED <<transactions, clock>>

----------------------------------------------------------------------------
(* The write path: every call of add_transaction and add_account *)

Next ==
    \/ Tick
    \/ \E a \in AccountArgs, m \in Amounts, t \in TypeArgs :
          AddTransaction(a, m, t, "Rent", "")
    \/ \E n \in AccountNames : AddAccount(n)
    \/ \E a \in AccountArgs : GetBalance(a)

Spec == Init /\ [][Next]_vars

----------------------------------------------------------------------------
(* Properties of the write path *)

\* the rows of transactions that belong to an account
RowsOf(a) == SelectSeq(transactions, LAMBDA r : r.account_id = a)

\* the step is a call of add_transaction, with the arguments call' records
AddTransactionStep ==
    /\ call'.op = "add_transaction"
    /\ AddTransaction(call'.args[1], call'.args[2], call'.args[3],
                      call'.args[4], call'.args[5])

\* what the call add_transaction that ended as call' adds to the balance of
\* account b
Credit(b) ==
    IF call'.raised # "" \/ call'.args[1] # b THEN 0
    ELSE IF call'.args[3] = "income" THEN call'.args[2] ELSE 0 - call'.args[2]

\* C1: the balance of every account is 0 before any transaction, each
\* successful add_transaction on an account adds the amount (income) or
\* subtracts it (expense) and leaves the other accounts' balances alone, a
\* failed one and every other call leave all balances alone: the balance is
\* the sum of the income amounts added minus the sum of the expense amounts.
C1_BalanceIsIncomeMinusExpense ==
    /\ \A b \in AccountArgs : get_balance(b) = 0
    /\ [][ \A b \in AccountArgs :
              get_balance(b)' = get_balance(b) + (IF AddTransactionStep THEN Credit(b) ELSE 0)
         ]_vars

\* an account with an income of 1000 and then an expense of 250 has its
\* balance read as 750
C1_Witness ==
    /\ call.op = "get_balance"
    /\ call.ret = 750
    /\ Len(RowsOf(call.args[1])) = 2
    /\ RowsOf(call.args[1])[1].type = "income"
    /\ RowsOf(call.args[1])[1].amount = 1000
    /\ RowsOf(call.args[1])[2].type = "expense"
    /\ RowsOf(call.args[1])[2].amount = 250

\* C2: add_transaction with a type that is neither 'income' nor 'expense'
\* raises ValueError and leaves table transactions as it was.
C2_BadTypeRejected ==
    [][ (AddTransactionStep /\ call'.args[3] \notin {"income", "expense"})
            => /\ call'.raised = "ValueError"
               /\ transactions' = transactions
      ]_vars

\* a call with type 'transfer' on a store that holds a transaction
C2_Witness ==
    /\ call.op = "add_transaction"
    /\ call.args[3] = "transfer"
    /\ call.raised = "ValueError"
    /\ transactions # << >>

\* C3: add_transaction with amount <= 0 fails, and every stored transaction
\* has amount > 0.
C3_NonPositiveAmountRejected ==
    /\ (call.op = "add_transaction" /\ call.args[2] <= 0) => call.raised # ""
    /\ \A i \in 1..Len(transactions) : transactions[i].amount > 0

\* C4: add_transaction on an account id that no account has fails, and every
\* stored transaction's account_id is the id of an account.
C4_UnknownAccountRejected ==
    /\ (call.op = "add_transaction" /\ call.args[1] \notin AccountIds)
            => call.raised # ""
    /\ \A i \in 1..Len(transactions) : transactions[i].account_id \in AccountIds

\* C12: get_balance on an account id that no account has fails; it returns a
\* number only for an account that exists.
C12_UnknownAccountBalanceRejected ==
    (call.op = "get_balance" /\ call.args[1] \notin AccountIds) => call.raised # ""

\* C13: add_account with an empty name fails and adds nothing, with a
\* non-empty name it returns an id no earlier account has: every stored
\* account has a non-empty name and ids are unique.
C13_EmptyNameRejected ==
    /\ (call.op = "add_account" /\ call.args[1] = "") => call.raised # ""
    /\ \A i \in 1..Len(accounts) : accounts[i].name # ""
    /\ \A i, j \in 1..Len(accounts) : i # j => accounts[i].id # accounts[j].id

\* C10: a transaction added to account A leaves the balance, every
\* transaction list and every spending summary of each other account B as
\* they were, and the new transaction is in none of B's lists.
C10_OtherAccountsUntouched ==
    [][ (AddTransactionStep /\ call'.raised = "")
            => \A b \in AccountArgs \ {call'.args[1]} :
                  /\ get_balance(b)' = get_balance(b)
                  /\ \A s \in BoundArgs, e \in BoundArgs :
                        /\ get_spending_by_category(b, s, e)'
                                = get_spending_by_category(b, s, e)
                        /\ \A n \in Limits :
                              /\ get_transactions(b, n, s, e)'
                                    = get_transactions(b, n, s, e)
                              /\ \A result \in get_transactions(b, n, s, e)' :
                                    \A i \in 1..Len(result) :
                                        result[i].id # call'.ret
      ]_vars

\* two accounts exist, one holds a transaction and a transaction has just
\* been added to the other
C10_Witness ==
    /\ call.op = "add_transaction"
    /\ call.raised = ""
    /\ Len(transactions) = 2
    /\ transactions[2].id = call.ret
    /\ transactions[1].account_id # transactions[2].account_id
    /\ {transactions[1].account_id, transactions[2].account_id} \subseteq AccountIds

----------------------------------------------------------------------------
(* The read path: valid transactions, read back through every query *)

NextQuery ==
    \/ Tick
    \/ \E a \in AccountArgs, m \in QueryAmounts, t \in TransactionType, c \in Categories :
          AddTransaction(a, m, t, c, "")
    \/ \E a \in AccountArgs, n \in Limits, s \in BoundArgs, e \in BoundArgs :
          GetTransactions(a, n, s, e)
    \/ \E a \in AccountArgs, s \in BoundArgs, e \in BoundArgs :
          GetSpendingByCategory(a, s, e)
    \/ \E s \in DateInputs, e \in DateInputs : ViewTransactions(s, e)
    \/ \E s \in DateInputs, e \in DateInputs : ViewSpendingSummary(s, e)

SpecQuery == Init /\ [][NextQuery]_vars

----------------------------------------------------------------------------
(* Properties of the read path *)

\* the instant a stored timestamp or a bound in the stored format names,
\* in seconds
Instant(timestamp) == timestamp[1] * 86400 + timestamp[2]

\* the positions in table transactions of the rows of account a whose
\* instant lies between the given bounds, both ends included
RowsBetween(a, start_date, end_date) ==
    {i \in 1..Len(transactions) :
        /\ transactions[i].account_id = a
        /\ start_date # None => Instant(start_date) <= Instant(transactions[i].timestamp)
        /\ end_date # None => Instant(transactions[i].timestamp) <= Instant(end_date)}

\* sum of the amounts of the rows at the positions in set S
RECURSIVE AmountOf(_)
AmountOf(S) ==
    IF S = {} THEN 0
    ELSE LET i == CHOOSE j \in S : TRUE
         IN  transactions[i].amount + AmountOf(S \ {i})

\* sum of the values of a dict
RECURSIVE Total(_, _)
Total(dict, keys) ==
    IF keys = {} THEN 0
    ELSE LET k == CHOOSE c \in keys : TRUE
         IN  dict[k] + Total(dict, keys \ {k})

\* b comes before a in "timestamp descending, then id descending"
NewerFirst(a, b) ==
    \/ Instant(a.timestamp) > Instant(b.timestamp)
    \/ Instant(a.timestamp) = Instant(b.timestamp) /\ a.id > b.id

\* C5: with limit >= 1, get_transactions returns at most limit rows, newest
\* timestamp first and, among equal timestamps, highest id first.
C5_NewestFirstWithinLimit ==
    (call.op = "get_transactions" /\ call.args[2] >= 1)
        => /\ Len(call.ret) <= call.args[2]
           /\ \A i, j \in 1..Len(call.ret) :
                 i < j => NewerFirst(call.ret[i], call.ret[j])

\* C6: get_transactions with limit <= 0 fails instead of returning a list.
C6_NonPositiveLimitRejected ==
    (call.op = "get_transactions" /\ call.args[2] <= 0) => call.raised # ""

\* C7: with bounds in the stored format, get_transactions returns only rows
\* of the account whose instant lies between the given bounds, ends
\* included, and all of them when the list is shorter than the limit;
\* get_spending_by_category sums over exactly the expenses among these rows.
C7_BoundsInclusive ==
    /\ call.op = "get_transactions" =>
          LET a        == call.args[1]
              limit    == call.args[2]
              between  == RowsBetween(a, call.args[3], call.args[4])
              returned == {call.ret[i].id : i \in 1..Len(call.ret)}
          IN  /\ returned \subseteq {transactions[i].id : i \in between}
              /\ (limit >= 1 /\ Len(call.ret) < limit)
                    => returned = {transactions[i].id : i \in between}
    /\ call.op = "get_spending_by_category" =>
          LET between == RowsBetween(call.args[1], call.args[2], call.args[3])
              spent(c) == {i \in between : /\ transactions[i].type = "expense"
                                           /\ transactions[i].category = c}
          IN  \A c \in Categories :
                 IF spent(c) = {} THEN c \notin DOMAIN call.ret
                 ELSE c \in DOMAIN call.ret /\ call.ret[c] = AmountOf(spent(c))

\* a list read with both bounds at noon holds a transaction stamped at noon
\* exactly, and leaves out one that is stamped at another time
C7_Witness ==
    /\ call.op = "get_transactions"
    /\ call.args[3] # None
    /\ call.args[4] = call.args[3]
    /\ Len(call.ret) = 1
    /\ call.ret[1].timestamp = call.args[3]
    /\ Cardinality(RowsBetween(call.args[1], None, None)) = 2

\* C8: when the user names a start day and an end day, every transaction of
\* the current account stamped on those days, from 00:00:00 of the first to
\* 23:59:59 of the last, is in the list shown.
C8_NamedDaysShownInFull ==
    (call.op = "_view_transactions" /\ IsDate(call.args[1]) /\ IsDate(call.args[2]))
        => \A i \in 1..Len(transactions) :
              ( /\ transactions[i].account_id = current_account
                /\ call.args[1][1] <= transactions[i].timestamp[1]
                /\ transactions[i].timestamp[1] <= call.args[2][1] )
                    => \E k \in 1..Len(call.ret) : call.ret[k] = transactions[i]

\* the account and window a summary was asked for: <<account, start, end>>
SummaryOf(c) ==
    IF c.op = "get_spending_by_category" THEN c.args
    ELSE <<current_account>> \o get_date_range(c.args[1], c.args[2])

\* C9: a spending summary has exactly the categories in which the account
\* has an expense inside the window, maps each to the sum of these expenses,
\* and its values add up to the account's expenses inside the window.
C9_SummaryIsExpensesByCategory ==
    call.op \in {"get_spending_by_category", "_view_spending_summary"} =>
        LET q == SummaryOf(call)
            expenses == {i \in 1..Len(transactions) :
                            /\ transactions[i].account_id = q[1]
                            /\ transactions[i].type = "expense"
                            /\ InWindow(transactions[i].timestamp, q[2], q[3])}
        IN  /\ DOMAIN call.ret = {transactions[i].category : i \in expenses}
            /\ \A c \in DOMAIN call.ret :
                  call.ret[c] = AmountOf({i \in expenses : transactions[i].category = c})
            /\ Total(call.ret, DOMAIN call.ret) = AmountOf(expenses)

\* a summary of an account with an expense in one category and an income in
\* another has the first category only
C9_Witness ==
    /\ call.op = "get_spending_by_category"
    /\ DOMAIN call.ret = {"Rent"}
    /\ \E i \in 1..Len(transactions) :
          /\ transactions[i].account_id = call.args[1]
          /\ transactions[i].type = "income"
          /\ transactions[i].category = "Salary"
          /\ InWindow(transactions[i].timestamp, call.args[2], call.args[3])

----------------------------------------------------------------------------
(* The menu session: every choice of the main menu and of the accounts menu,
   every way out of the loop, and the next start on the same file *)

NextSession ==
    \/ Tick
    \/ pc = "menu" /\ \E m \in AmountInputs, c \in CategoryInputs : AddIncome(m, c)
    \/ pc = "menu" /\ \E m \in AmountInputs, c \in CategoryInputs : AddExpense(m, c)
    \/ pc = "menu" /\ ViewTransactions(<< >>, << >>)
    \/ pc = "menu" /\ ViewSpendingSummary(<< >>, << >>)
    \/ ManageAccounts
    \/ \E i \in IdInputs : SwitchAccount(i)
    \/ \E n \in AccountNames : CreateAccount(n)
    \/ BackToMenu
    \/ pc = "menu" /\ \E f \in Filenames, w \in BOOLEAN : ExportData(<< >>, << >>, f, w)
    \/ InvalidChoice
    \/ MenuExit
    \/ KeyboardInterrupt
    \/ UnexpectedError
    \/ MainFinally
    \/ Restart

\* the finally clause of main() runs whenever the try block is left
SpecSession == Init /\ [][NextSession]_vars /\ WF_vars(MainFinally)

\* a step that starts the program: the store is opened and initialized
StartStep == pc = "exited" /\ pc' = "menu"

\* C11: initialization creates the one default account on an empty store, and
\* every later initialization leaves the accounts and the transactions as
\* they were
C11_InitializationIdempotent ==
    /\ Len(accounts) = 1 /\ accounts[1].id = 1 /\ accounts[1].name = "Primary Account"
    /\ [][StartStep => UNCHANGED <<accounts, transactions, sqlite_sequence>>]_vars

C11_Witness ==
    /\ call.op = "__init__"
    /\ pc = "menu"
    /\ Len(accounts) = 2
    /\ Len(transactions) > 0

\* a step in which an export found its destination impossible to open
FailedExportStep ==
    /\ pc = "menu"
    /\ call'.op = "export_transactions_to_csv"
    /\ call'.opened = FALSE
    /\ clock' = clock

\* C14: an export whose destination cannot be opened reports failure without
\* raising, leaves accounts and transactions unchanged, and the menu goes on
C14_FailedExportReported ==
    [][FailedExportStep =>
          /\ call'.raised = ""
          /\ call'.ret = FALSE
          /\ pc' = "menu"
          /\ UNCHANGED <<accounts, transactions, sqlite_sequence, current_account,
                      connection>>]_vars

C14_Witness ==
    /\ call.op = "export_transactions_to_csv"
    /\ call.opened = FALSE
    /\ call.ret = FALSE
    /\ pc = "menu"
    /\ connection = "open"
    /\ Len(transactions) > 0

\* C15: whichever way the menu loop is left, the connection is eventually
\* closed, it is closed once (it is open when close() is called), and no
\* operation touches the store of a closed connection
C15_ClosedOnceOnEveryExit ==
    /\ [](pc = "exited" => connection = "closed")
    /\ [](pc \in {"menu", "accounts", "finally"} => connection = "open")
    /\ [][connection' = "closed" /\ connection = "open" => call'.op = "close"]_vars
    /\ [][connection = "closed" =>
             \/ StartStep
             \/ UNCHANGED <<accounts, transactions, sqlite_sequence, call, connection>>]_vars
    /\ (pc = "finally") ~> (connection = "closed")

C15_Witness ==
    /\ pc = "exited"
    /\ connection = "closed"
    /\ call.op = "close"
    /\ Len(transactions) > 0

\* C16: the transactions are append-only: a step leaves every stored
\* transaction as it is, and a new one gets an id greater than every id
\* assigned before
C16_TransactionsAppendOnly ==
    [][/\ Len(transactions') >= Len(transactions)
       /\ \A i \in 1..Len(transactions) : transactions'[i] = transactions[i]
       /\ \A j \in (Len(transactions) + 1)..Len(transactions') :
             /\ transactions'[j].id > sqlite_sequence.transactions
             /\ \A i \in 1..Len(transactions) : transactions'[j].id > transactions[i].id
       /\ sqlite_sequence'.transactions >= sqlite_sequence.transactions]_vars

C16_Witness ==
    /\ Len(transactions) = MaxTx
    /\ transactions[MaxTx].id > transactions[1].id
    /\ call.op = "__init__"

\* C17: the selected account is always an existing one: 1 at the start, changed
\* only by a switch to an id of the list, so every transaction entered
\* through the menu is that of an existing account
C17_CurrentAccountExists ==
    /\ current_account = 1
    /\ [](current_account \in AccountIds)
    /\ [](\A i \in 1..Len(transactions) : transactions[i].account_id \in AccountIds)
    /\ [][StartStep => current_account' = 1]_vars
    /\ [][current_account' # current_account /\ ~StartStep =>
             /\ pc = "accounts"
             /\ call'.op = "switch_account"
             /\ call'.args[1] = <<current_account'>>
             /\ current_account' \in AccountIds]_vars

C17_Witness ==
    /\ current_account = 2
    /\ call.op = "add_transaction"
    /\ call.raised = ""
    /\ \E i \in 1..Len(transactions) : transactions[i].account_id = 2

====
